---- MODULE Spec2Model ----
(***************************************************************************)
(* The on-disk record codec of a nutsdb bucket (bucket.go): BucketMeta     *)
(* header decoding, Bucket.Encode / Bucket.Decode, the size helpers and    *)
(* the CRC-32 helper GetCRC.                                               *)
(*                                                                         *)
(* Data representation.  TLC integers are 32-bit signed, so wider Go       *)
(* values are kept as 16-bit limbs:                                        *)
(*   uint16           a number in 0..65535                                 *)
(*   uint32           <<lo, hi>>, value lo + 65536*hi, hi < 65536          *)
(*   uint64           <<l0, l1, l2, l3>>, least significant limb first     *)
(*   int (64-bit), used for lengths and offsets, never negative here       *)
(*                    <<lo, hi>>, value lo + 65536*hi, hi unbounded        *)
(* A []byte / string content is a run-length sequence of <<byte, count>>   *)
(* pairs (count an int as above), kept canonical: no empty run and no two  *)
(* adjacent runs of the same byte, so equal contents are equal values.     *)
(* This lets a Name of more than 2^32 bytes be a state of the model.       *)
(* Where a definition reads CHOOSE y \in {e(c) : c \in {d}} : TRUE it means *)
(* e(d): the form makes TLC evaluate d before e, which keeps the           *)
(* evaluation of the recursive definitions shallow.                        *)
(***************************************************************************)
EXTENDS Integers, Sequences, FiniteSets, TLC

(***************************************************************************)
(* Go int arithmetic on <<lo, hi>> pairs.                                  *)
(***************************************************************************)
Limb == 65536

N(i) == <<i % Limb, i \div Limb>>

NAdd(a, b) == <<(a[1] + b[1]) % Limb, a[2] + b[2] + ((a[1] + b[1]) \div Limb)>>

NLt(a, b) == a[2] < b[2] \/ (a[2] = b[2] /\ a[1] < b[1])

NLeq(a, b) == a = b \/ NLt(a, b)

\* a - b for b <= a
NSub(a, b) ==
    IF a[1] >= b[1] THEN <<a[1] - b[1], a[2] - b[2]>>
    ELSE <<a[1] + Limb - b[1], a[2] - b[2] - 1>>

NMin(a, b) == IF NLt(a, b) THEN a ELSE b

NHalf(a) == <<(a[1] \div 2) + (Limb \div 2) * (a[2] % 2), a[2] \div 2>>

NOdd(a) == a[1] % 2 = 1

Zero == <<0, 0>>

One == <<1, 0>>

\* uint32(x) of a Go int x: the low 32 bits
ToUint32(x) == <<x[1], x[2] % Limb>>

(***************************************************************************)
(* Byte contents as canonical run-length sequences.                        *)
(***************************************************************************)
Run(v, n) == IF n = Zero THEN <<>> ELSE << <<v, n>> >>

\* the operators below halve the list of runs instead of walking it, which
\* keeps their evaluation shallow
Front(s) == SubSeq(s, 1, Len(s) \div 2)

Back(s) == SubSeq(s, (Len(s) \div 2) + 1, Len(s))

RECURSIVE BLen(_)
BLen(s) ==
    IF s = <<>> THEN Zero
    ELSE IF Len(s) = 1 THEN s[1][2]
    ELSE NAdd(BLen(Front(s)), BLen(Back(s)))

\* concatenation, merging the runs that meet when they hold the same byte
BCat(s, t) ==
    IF s = <<>> THEN t
    ELSE IF t = <<>> THEN s
    ELSE IF s[Len(s)][1] = t[1][1]
         THEN SubSeq(s, 1, Len(s) - 1)
              \o << <<t[1][1], NAdd(s[Len(s)][2], t[1][2])>> >>
              \o Tail(t)
         ELSE s \o t

\* the first k bytes (all of s when it is shorter)
RECURSIVE BTake(_, _)
BTake(s, k) ==
    IF s = <<>> \/ k = Zero THEN <<>>
    ELSE IF Len(s) = 1 THEN << <<s[1][1], NMin(k, s[1][2])>> >>
    ELSE CHOOSE tk \in
           { IF NLeq(k, fl) THEN BTake(Front(s), k)
             ELSE Front(s) \o BTake(Back(s), NSub(k, fl)) :
             fl \in {BLen(Front(s))} } : TRUE

\* all but the first k bytes
RECURSIVE BDrop(_, _)
BDrop(s, k) ==
    IF s = <<>> \/ k = Zero THEN s
    ELSE IF Len(s) = 1
         THEN (IF NLeq(s[1][2], k) THEN <<>> ELSE << <<s[1][1], NSub(s[1][2], k)>> >>)
    ELSE CHOOSE dr \in
           { IF NLeq(k, fl) THEN BDrop(Front(s), k) \o Back(s)
             ELSE BDrop(Back(s), NSub(k, fl)) :
             fl \in {BLen(Front(s))} } : TRUE

\* the byte at 0-based index i < BLen(s)
RECURSIVE BAt(_, _)
BAt(s, i) ==
    IF Len(s) = 1 THEN s[1][1]
    ELSE CHOOSE at \in
           { IF NLt(i, fl) THEN BAt(Front(s), i) ELSE BAt(Back(s), NSub(i, fl)) :
             fl \in {BLen(Front(s))} } : TRUE

\* s with the bytes at [off, off + BLen(t)) overwritten by t
BPut(s, off, t) ==
    BCat(BCat(BTake(s, off), t), BDrop(s, NAdd(off, BLen(t))))

\* the content of a list of bytes
RECURSIVE Bytes(_)
Bytes(q) ==
    IF q = <<>> THEN <<>>
    ELSE IF Len(q) = 1 THEN Run(q[1], One)
    ELSE BCat(Bytes(Front(q)), Bytes(Back(q)))

(***************************************************************************)
(* encoding/binary.LittleEndian                                            *)
(***************************************************************************)
\* the two bytes of a uint16, most significant first: the other byte order
LEBytes16BigEndian(x) == <<x \div 256, x % 256>>

\* the two bytes of a uint16, least significant first
LEBytes16(x) == <<x % 256, x \div 256>>

PutUint16(x) == Bytes(LEBytes16(x))

PutUint32(x) == Bytes(LEBytes16(x[1]) \o LEBytes16(x[2]))

PutUint64(x) ==
    Bytes(LEBytes16(x[1]) \o LEBytes16(x[2]) \o LEBytes16(x[3]) \o LEBytes16(x[4]))

\* the readers take a content of at least 2, 4, 8 bytes and read its start
Uint16At(s, i) == BAt(s, N(i)) + 256 * BAt(s, N(i + 1))

Uint16(s) == Uint16At(s, 0)

Uint32(s) == <<Uint16At(s, 0), Uint16At(s, 2)>>

Uint64(s) == <<Uint16At(s, 0), Uint16At(s, 2), Uint16At(s, 4), Uint16At(s, 6)>>

(***************************************************************************)
(* hash/crc32, IEEE polynomial, on uint32 values <<lo, hi>>.               *)
(***************************************************************************)
(* A table written as [i \in S |-> e] @@ <<>> is enumerated once, before    *)
(* the first state is computed; without the @@ each lookup would evaluate  *)
(* e again.                                                                *)

\* a ^ b for a, b < 16
XorBits(a, b) ==
    ((a + b) % 2)
    + 2 * (((a \div 2) + (b \div 2)) % 2)
    + 4 * (((a \div 4) + (b \div 4)) % 2)
    + 8 * (((a \div 8) + (b \div 8)) % 2)

Xor4 == [k \in 0..255 |-> XorBits(k \div 16, k % 16)] @@ <<>>

Xor8(a, b) == Xor4[(a % 16) * 16 + (b % 16)] + 16 * Xor4[(a \div 16) * 16 + (b \div 16)]

Xor16(a, b) == Xor8(a % 256, b % 256) + 256 * Xor8(a \div 256, b \div 256)

Xor32(x, y) == <<Xor16(x[1], y[1]), Xor16(x[2], y[2])>>

Not32(x) == <<65535 - x[1], 65535 - x[2]>>

\* crc32.IEEE = 0xedb88320
IEEE == <<33568, 60856>>

ShiftRight1(x) == <<(x[1] \div 2) + 32768 * (x[2] % 2), x[2] \div 2>>

ShiftRight8(x) == <<(x[1] \div 256) + 256 * (x[2] % 256), x[2] \div 256>>

\* one step of the table construction: crc = (crc >> 1) ^ poly when the low
\* bit is set, crc >> 1 otherwise
BitStep(x) == IF x[1] % 2 = 1 THEN Xor32(ShiftRight1(x), IEEE) ELSE ShiftRight1(x)

\* the eight steps for one table entry
BitSteps(x) == BitStep(BitStep(BitStep(BitStep(BitStep(BitStep(BitStep(BitStep(x))))))))

IEEETable == [i \in 0..255 |-> BitSteps(<<i, 0>>)] @@ <<>>

\* crc = tab[byte(crc) ^ v] ^ (crc >> 8)
ByteStep(crc, v) == Xor32(IEEETable[Xor8(crc[1] % 256, v)], ShiftRight8(crc))

(* A run of n equal bytes v moves the register by the n-fold iterate of     *)
(* ByteStep(_, v), which is the map r |-> r*x^8 + tab[v] of GF(2)[x] modulo *)
(* the CRC polynomial (bit 31 of a register is the coefficient of x^0).     *)
(* Its n-fold iterate is r |-> r*m + tab[v]*s, where <<m, s>> is the n-fold *)
(* iterate of r |-> r*x^8 + 1, computed by the binary method.  Runs of at   *)
(* most 8 bytes are stepped byte by byte.                                   *)

\* the polynomial 1
PolyOne == <<0, 32768>>

\* a * x^8
MulX8(a) == ByteStep(a, 0)

\* acc + p * q for the polynomial of degree < 8 held in byte p (bit 7 of p
\* is x^0), bits 7 - i .. 0 still to do and q already multiplied by x^i;
\* two bits at a time
RECURSIVE MulByte(_, _, _, _)
MulByte(p, q, acc, i) ==
    IF i = 8 THEN acc
    ELSE CHOOSE mb \in
           { MulByte(p, BitStep(q1), 
                     IF (p \div (2 ^ (6 - i))) % 2 = 1 THEN Xor32(acc1, q1) ELSE acc1,
                     i + 2) :
             q1 \in {BitStep(q)},
             acc1 \in {IF (p \div (2 ^ (7 - i))) % 2 = 1 THEN Xor32(acc, q) ELSE acc} } : TRUE

\* f * g modulo the CRC polynomial, by Horner's rule over the bytes of f
MulMod(f, g) ==
    CHOOSE mm \in
      { MulByte(f[2] \div 256, g, MulX8(m2), 0) :
        m2 \in { MulByte(f[2] % 256, g, MulX8(m1), 0) :
                 m1 \in { MulByte(f[1] \div 256, g, MulX8(m0), 0) :
                          m0 \in {MulByte(f[1] % 256, g, Zero, 0)} } } } : TRUE

\* the map <<m, s>> is r |-> r*m + s; first f, then g
AffThen(f, g) == <<MulMod(f[1], g[1]), Xor32(MulMod(f[2], g[1]), g[2])>>

AffIdentity == <<PolyOne, Zero>>

\* r |-> r*x^8 + 1
AffUnit == <<MulX8(PolyOne), PolyOne>>

\* f applied twice
AffTwice(f) == CHOOSE sq \in {AffThen(half, half) : half \in {f}} : TRUE

\* the 2^i-fold iterates of f, i = 0..k-1: the first half, then the same
\* from the square of its last one
RECURSIVE AffPowers(_, _)
AffPowers(f, k) ==
    IF k = 1 THEN <<f>>
    ELSE CHOOSE ap \in
           { left \o AffPowers(AffTwice(left[Len(left)]), k - (k \div 2)) :
             left \in {AffPowers(f, k \div 2)} } : TRUE

\* AffUnitPow2[i + 1] is the 2^i-fold iterate of AffUnit, i = 0..32
AffUnitPow2 == AffPowers(AffUnit, 33)

\* bit i of n
NBit(n, i) == IF i < 16 THEN (n[1] \div (2 ^ i)) % 2 ELSE (n[2] \div (2 ^ (i - 16))) % 2

\* the iterates for the bits lo..hi of n that are set, composed
RECURSIVE AffBits(_, _, _)
AffBits(n, lo, hi) ==
    IF lo = hi THEN (IF NBit(n, lo) = 1 THEN AffUnitPow2[lo + 1] ELSE AffIdentity)
    ELSE CHOOSE ab \in
           { IF lower = AffIdentity THEN upper
             ELSE IF upper = AffIdentity THEN lower
             ELSE AffThen(lower, upper) :
             lower \in {AffBits(n, lo, (lo + hi) \div 2)},
             upper \in {AffBits(n, ((lo + hi) \div 2) + 1, hi)} } : TRUE

\* the n-fold iterate of AffUnit, n < 2^33
AffRun(n) == AffBits(n, 0, 32)

\* the register after k more bytes v
RECURSIVE RunDirect(_, _, _)
RunDirect(crc, v, k) ==
    IF k = 0 THEN crc
    ELSE CHOOSE rd \in {RunDirect(next, v, k - 1) : next \in {ByteStep(crc, v)}} : TRUE

\* the register after the run r = <<v, n>>
RunStep(crc, r) ==
    IF r[2][2] = 0 /\ r[2][1] <= 8
    THEN RunDirect(crc, r[1], r[2][1])
    ELSE CHOOSE rs \in
           { Xor32(MulMod(reg, it[1]), MulMod(IEEETable[r[1]], it[2])) :
             reg \in {crc}, it \in {AffRun(r[2])} } : TRUE

\* the register after the runs lo..hi of s
RECURSIVE Fold(_, _, _, _)
Fold(crc, s, lo, hi) ==
    IF lo > hi THEN crc
    ELSE IF lo = hi THEN RunStep(crc, s[lo])
    ELSE CHOOSE fd \in
           { Fold(left, s, ((lo + hi) \div 2) + 1, hi) :
             left \in {Fold(crc, s, lo, (lo + hi) \div 2)} } : TRUE

\* an update that starts over instead of continuing from crc
UpdateRestart(crc, s) ==
    CHOOSE up \in {Not32(Fold(Not32(Zero), data, 1, Len(data))) : data \in {s}} : TRUE

\* crc32.Update(crc, crc32.IEEETable, p)
Update(crc, s) ==
    CHOOSE up \in
      { Not32(Fold(Not32(seed), data, 1, Len(data))) : seed \in {crc}, data \in {s} } : TRUE

\* crc32.ChecksumIEEE(data)
ChecksumIEEE(s) == Update(Zero, s)

(***************************************************************************)
(* Go slices: arr is the content from the slice's first byte to the end of *)
(* its backing array (so cap = BLen(arr)), len its length.                 *)
(***************************************************************************)
NilSlice == [arr |-> <<>>, len |-> Zero]

\* make([]byte, n) after its content was written: len = cap
SliceOf(content) == [arr |-> content, len |-> BLen(content)]

Cap(s) == BLen(s.arr)

Content(s) == BTake(s.arr, s.len)

\* s[i] is in range
IndexOk(s, i) == NLt(i, s.len)

\* s[lo:hi] is in range: 0 <= lo <= hi <= cap(s)
SliceOk(s, lo, hi) == NLeq(lo, hi) /\ NLeq(hi, Cap(s))

\* s[lo:hi]
Slice(s, lo, hi) == [arr |-> BDrop(s.arr, lo), len |-> NSub(hi, lo)]

\* s[lo:] is s[lo:len(s)]
SliceFromOk(s, lo) == SliceOk(s, lo, s.len)

SliceFrom(s, lo) == Slice(s, lo, s.len)

\* s[lo:hi:max], which sets the capacity to max - lo
Slice3(s, lo, hi, max) ==
    [arr |-> BTake(BDrop(s.arr, lo), NSub(max, lo)), len |-> NSub(hi, lo)]

(***************************************************************************)
(* bucket.go                                                               *)
(***************************************************************************)
IdSize == 8

DsSize == 2

\* BucketMetaSize = GetDiskSizeFromSingleObject(BucketMeta{}): the sum of the
\* widths of Crc (4), Op (2) and Size (4)
BucketMetaSize == 10

BucketInsertOperation == 1

BucketUpdateOperation == 2

BucketDeleteOperation == 3

\* a *BucketMeta that is nil
NilMeta == [nil |-> TRUE]

BucketMeta(crc, o, size) == [Crc |-> crc, Op |-> o, Size |-> size]

Bucket(m, id, ds, name) == [Meta |-> m, Id |-> id, Ds |-> ds, Name |-> name]

\* func (b *Bucket) GetPayloadSize() int
GetPayloadSize(bk) == NAdd(N(IdSize + DsSize), BLen(bk.Name))

\* an entry size that leaves the header out
GetEntrySizeNoMeta(bk) == GetPayloadSize(bk)

\* func (b *Bucket) GetEntrySize() int
GetEntrySize(bk) == NAdd(N(BucketMetaSize), GetPayloadSize(bk))

\* BucketMeta.Decode without the bounds check of line 55: each read is
\* bounded by the capacity only
MetaDecodeNoHint(m, bytes) ==
    IF /\ SliceOk(bytes, Zero, N(4))
       /\ SliceOk(bytes, N(4), N(6))
       /\ SliceOk(bytes, N(6), N(10))
    THEN [ok |-> TRUE,
          meta |-> BucketMeta(Uint32(Slice(bytes, Zero, N(4)).arr),
                              Uint16(Slice(bytes, N(4), N(6)).arr),
                              Uint32(Slice(bytes, N(6), N(10)).arr))]
    ELSE [ok |-> FALSE, meta |-> m]

\* func (meta *BucketMeta) Decode(bytes []byte): ok is FALSE when the call
\* panics (index out of range at line 55), and then meta is as before
MetaDecode(m, bytes) ==
    IF ~IndexOk(bytes, N(BucketMetaSize - 1))
    THEN [ok |-> FALSE, meta |-> m]
    ELSE LET crc  == Uint32(Content(Slice(bytes, Zero, N(4))))
             o    == Uint16(Content(Slice(bytes, N(4), N(6))))
             size == Uint32(Content(Slice(bytes, N(6), N(10))))
         IN  [ok |-> TRUE, meta |-> BucketMeta(crc, o, size)]

\* copy(dst, src) into the content of dst: min(len(dst), len(src)) bytes
Copy(dst, src) == BPut(dst, Zero, BTake(src, NMin(BLen(dst), BLen(src))))

\* copy(dst[off:], src) seen on dst
CopyAt(dst, off, src) == BCat(BTake(dst, off), Copy(BDrop(dst, off), src))

\* Encode, lines 66-73: the new buffer with Op, Size, Id, Ds and Name written
EncodeFill(bk, size) ==
    CopyAt(BPut(BPut(BPut(BPut(Run(0, GetEntrySize(bk)),
                               N(4), PutUint16(bk.Meta.Op)),
                          N(6), PutUint32(size)),
                     N(BucketMetaSize), PutUint64(bk.Id)),
                N(BucketMetaSize + IdSize), PutUint16(bk.Ds)),
           N(BucketMetaSize + IdSize + DsSize), bk.Name)

\* Encode with Meta.Size set to size: the returned slice and the receiver
\* after the call
EncodeWith(bk, size) ==
    CHOOSE e \in
      UNION { { [buf |-> SliceOf(BPut(body, Zero, PutUint32(c32))),
                 b   |-> [bk EXCEPT !.Meta = BucketMeta(c32, bk.Meta.Op, size)]] :
                c32 \in {ChecksumIEEE(BDrop(body, N(4)))} } :
              body \in {EncodeFill(bk, size)} } : TRUE

\* an Encode that computes Meta.Size only while it is still zero
EncodeKeepSize(bk) ==
    EncodeWith(bk, IF bk.Meta.Size = Zero THEN ToUint32(GetPayloadSize(bk))
                   ELSE bk.Meta.Size)

\* func (b *Bucket) Encode() []byte
Encode(bk) == EncodeWith(bk, ToUint32(GetPayloadSize(bk)))

\* a Decode that also rebuilds Meta from the payload length
BucketDecodeSetsSize(bk, bytes) ==
    IF ~SliceOk(bytes, Zero, N(IdSize)) THEN [ok |-> FALSE, line |-> 84, b |-> bk]
    ELSE IF ~SliceOk(bytes, N(IdSize), N(IdSize + DsSize))
         THEN [ok |-> FALSE, line |-> 85, b |-> bk]
    ELSE IF ~SliceFromOk(bytes, N(IdSize + DsSize))
         THEN [ok |-> FALSE, line |-> 86, b |-> bk]
    ELSE [ok |-> TRUE, line |-> 90,
          b |-> Bucket(BucketMeta(Zero, 0, ToUint32(bytes.len)),
                       Uint64(Content(Slice(bytes, Zero, N(IdSize)))),
                       Uint16(Content(Slice(bytes, N(IdSize), N(IdSize + DsSize)))),
                       Content(SliceFrom(bytes, N(IdSize + DsSize))))]

\* a Decode that assigns each field as soon as it is read
BucketDecodeEager(bk, bytes) ==
    IF ~SliceOk(bytes, Zero, N(IdSize)) THEN [ok |-> FALSE, line |-> 84, b |-> bk]
    ELSE LET b1 == [bk EXCEPT !.Id = Uint64(Content(Slice(bytes, Zero, N(IdSize))))]
         IN  IF ~SliceOk(bytes, N(IdSize), N(IdSize + DsSize))
             THEN [ok |-> FALSE, line |-> 85, b |-> b1]
             ELSE LET b2 == [b1 EXCEPT !.Ds =
                               Uint16(Content(Slice(bytes, N(IdSize), N(IdSize + DsSize))))]
                  IN  IF ~SliceFromOk(bytes, N(IdSize + DsSize))
                      THEN [ok |-> FALSE, line |-> 86, b |-> b2]
                      ELSE [ok |-> TRUE, line |-> 90,
                            b |-> [b2 EXCEPT !.Name =
                                     Content(SliceFrom(bytes, N(IdSize + DsSize)))]]

\* func (b *Bucket) Decode(bytes []byte) error: ok is FALSE when the call
\* panics (slice bounds out of range), at the line given; the receiver is
\* assigned only after the three reads
BucketDecode(bk, bytes) ==
    IF ~SliceOk(bytes, Zero, N(IdSize)) THEN [ok |-> FALSE, line |-> 84, b |-> bk]
    ELSE IF ~SliceOk(bytes, N(IdSize), N(IdSize + DsSize))
         THEN [ok |-> FALSE, line |-> 85, b |-> bk]
    ELSE IF ~SliceFromOk(bytes, N(IdSize + DsSize))
         THEN [ok |-> FALSE, line |-> 86, b |-> bk]
    ELSE LET id   == Uint64(Content(Slice(bytes, Zero, N(IdSize))))
             ds   == Uint16(Content(Slice(bytes, N(IdSize), N(IdSize + DsSize))))
             name == Content(SliceFrom(bytes, N(IdSize + DsSize)))
         IN  [ok |-> TRUE, line |-> 90,
              b |-> [bk EXCEPT !.Id = id, !.Name = name, !.Ds = ds]]

\* a GetCRC that trusts the checksum stored in the header
GetCRCStored(headerBuf, dataBuf) ==
    IF ~SliceOk(headerBuf, Zero, N(4)) THEN [ok |-> FALSE, crc |-> Zero]
    ELSE [ok |-> TRUE, crc |-> Uint32(Content(Slice(headerBuf, Zero, N(4))))]

\* func (b *Bucket) GetCRC(headerBuf []byte, dataBuf []byte) uint32
GetCRC(headerBuf, dataBuf) ==
    IF ~SliceFromOk(headerBuf, N(4)) THEN [ok |-> FALSE, crc |-> Zero]
    ELSE CHOOSE gc \in
           { [ok |-> TRUE, crc |-> Update(hcrc, Content(dataBuf))] :
             hcrc \in {ChecksumIEEE(Content(SliceFrom(headerBuf, N(4))))} } : TRUE

(***************************************************************************)
(* The state machine: a writer owns one Bucket, changes its fields and     *)
(* encodes it into record; a loader then works on the encoded record: it   *)
(* may recompute the checksum over header and payload (of the record as    *)
(* written, or of the record with one bit inverted on storage), decode the *)
(* header, and decode a payload slice.  op names the last call, returned   *)
(* tells whether it returned (FALSE: it panicked), arg is the slice it was *)
(* given, pre its receiver before the call and recv its receiver after,    *)
(* sum the checksum GetCRC returned and flip the bit that was inverted.    *)
(* The variables are named apart from every operator parameter above.      *)
(***************************************************************************)
VARIABLES bucket, record, op, returned, arg, pre, recv, sum, flip

vars == <<bucket, record, op, returned, arg, pre, recv, sum, flip>>

\* longest Name drawn byte by byte
MaxNameLen == 2

NameBytes == {0, 97}

SmallNames == {Bytes(q) : q \in UNION {[1..n -> NameBytes] : n \in 0..MaxNameLen}}

\* 2^32 - 10 bytes, and 2^32 + 1 bytes
HugeNames == {Run(97, <<65526, 65535>>), BCat(Bytes(<<98>>), Run(97, <<0, 65536>>))}

Names == SmallNames \cup HugeNames

Ops == {BucketInsertOperation, BucketDeleteOperation}

Ids == {<<42, 0, 0, 0>>, <<4660, 22136, 39612, 57072>>}

Dss == {1, 259}

\* Op, Id and Ds of the buckets explored: at most one of them off the first
\* combination
Combos ==
    {<<o, <<42, 0, 0, 0>>, 1>> : o \in Ops}
    \cup {<<BucketInsertOperation, id, 1>> : id \in Ids}
    \cup {<<BucketInsertOperation, <<42, 0, 0, 0>>, ds>> : ds \in Dss}

\* the buckets explored; the huge names go with the first combination only
Explored(bk) ==
    /\ <<bk.Meta.Op, bk.Id, bk.Ds>> \in Combos
    /\ \/ bk.Name \in SmallNames
       \/ /\ bk.Name \in HugeNames
          /\ <<bk.Meta.Op, bk.Id, bk.Ds>> = <<BucketInsertOperation, <<42, 0, 0, 0>>, 1>>

\* Meta.Crc and Meta.Size as some earlier use of the struct left them
StaleMetas(o) == {BucketMeta(Zero, o, Zero), BucketMeta(<<7, 7>>, o, <<99, 0>>)}

MetaReceivers == {BucketMeta(Zero, 0, Zero), BucketMeta(<<1, 2>>, 7, <<3, 4>>)}

BucketReceivers ==
    { Bucket(NilMeta, <<0, 0, 0, 0>>, 0, <<>>),
      Bucket(BucketMeta(<<1, 2>>, 7, <<3, 4>>), <<9, 9, 9, 9>>, 5, Bytes(<<122>>)) }

None == <<>>

Init ==
    /\ bucket \in { bk \in { Bucket(m, id, ds, nm) :
                        m \in UNION {StaleMetas(o) : o \in Ops},
                        id \in Ids, ds \in Dss, nm \in Names } : Explored(bk) }
    /\ record = NilSlice
    /\ op = "new"
    /\ returned = TRUE
    /\ arg = None
    /\ pre = None
    /\ recv = None
    /\ sum = Zero
    /\ flip = None

\* the writer may act until the loader has started
Writing == op \in {"new", "Edit", "Encode"}

Edited(nb) ==
    /\ op \in {"new", "Encode"}
    /\ nb # bucket
    /\ Explored(nb)
    /\ bucket' = nb
    /\ op' = "Edit"
    /\ returned' = TRUE
    /\ arg' = None /\ pre' = None /\ recv' = None /\ sum' = Zero /\ flip' = None
    /\ UNCHANGED record

SetOp == \E o \in Ops : Edited([bucket EXCEPT !.Meta.Op = o])

SetId == \E id \in Ids : Edited([bucket EXCEPT !.Id = id])

SetDs == \E ds \in Dss : Edited([bucket EXCEPT !.Ds = ds])

SetName == \E nm \in Names : Edited([bucket EXCEPT !.Name = nm])

EncodeCall ==
    /\ Writing
    /\ \E e \in {Encode(bucket)} :
         /\ bucket' = e.b
         /\ record' = e.buf
    /\ op' = "Encode"
    /\ returned' = TRUE
    /\ arg' = None /\ pre' = None /\ recv' = None /\ sum' = Zero /\ flip' = None

\* the loader starts on the record just encoded
Encoded == record # NilSlice /\ op = "Encode"

\* GetCRC over the header and the payload of the record as written
GetCRCCall ==
    /\ Encoded
    /\ \E r \in {GetCRC(Slice(record, Zero, N(BucketMetaSize)), SliceFrom(record, N(BucketMetaSize)))} :
         /\ returned' = r.ok
         /\ sum' = r.crc
    /\ op' = "GetCRC"
    /\ arg' = None /\ pre' = None /\ recv' = None /\ flip' = None
    /\ UNCHANGED <<bucket, record>>

\* content s with bit k of the byte at index i inverted
FlipBit(s, i, k) ==
    LET v == BAt(s, i)
        w == IF (v \div (2 ^ k)) % 2 = 1 THEN v - 2 ^ k ELSE v + 2 ^ k
    IN  BPut(s, i, Run(w, One))

\* the bits of a record outside its Crc field that are inverted: all of
\* them in a short record; in a long one the lowest and the highest bit of a
\* byte of Op, of Size, of Id, of Ds, and of the first, the middle and the
\* last byte of Name
FlipIndexes(s) ==
    IF NLt(BLen(s), N(64))
    THEN {N(j) : j \in 4..(BLen(s)[1] - 1)}
    ELSE {N(4), N(6), N(10), N(18), N(20), NHalf(BLen(s)), NSub(BLen(s), One)}

FlipBits(s) == IF NLt(BLen(s), N(64)) THEN 0..7 ELSE {0, 7}

\* GetCRC over the header and the payload of the record with one bit of
\* record[4:] inverted
TamperCall ==
    /\ Encoded
    /\ \E i \in FlipIndexes(Content(record)), k \in FlipBits(Content(record)) :
         \E t \in {SliceOf(FlipBit(Content(record), i, k))} :
           \E r \in {GetCRC(Slice(t, Zero, N(BucketMetaSize)), SliceFrom(t, N(BucketMetaSize)))} :
             /\ returned' = r.ok
             /\ sum' = r.crc
             /\ flip' = <<i, k>>
             /\ arg' = t
    /\ op' = "Tamper"
    /\ pre' = None /\ recv' = None
    /\ UNCHANGED <<bucket, record>>

HeaderLens == {N(0), N(4), N(9), N(10), N(11), record.len}

\* BucketMeta.Decode on the first k bytes of the record
MetaDecodeCall ==
    /\ Encoded
    /\ \E m \in MetaReceivers, k \in HeaderLens :
         \E r \in {MetaDecode(m, Slice(record, Zero, k))} :
           /\ returned' = r.ok
           /\ recv' = r.meta
           /\ pre' = m
           /\ arg' = Slice(record, Zero, k)
    /\ op' = "MetaDecode"
    /\ sum' = Zero /\ flip' = None
    /\ UNCHANGED <<bucket, record>>

\* the bytes after the header
Avail == NSub(record.len, N(BucketMetaSize))

PayloadLens == {n \in {N(0), N(7), N(8), N(9), N(10), N(11), Avail} : NLeq(n, Avail)}

PayloadCaps(n) == {c \in {n, N(9), Avail} : NLeq(n, c) /\ NLeq(c, Avail)}

Decoded(d, payload, how) ==
    /\ \E r \in {BucketDecode(d, payload)} :
         /\ returned' = r.ok
         /\ recv' = r.b
    /\ pre' = d
    /\ arg' = payload
    /\ op' = how
    /\ sum' = Zero /\ flip' = None
    /\ UNCHANGED <<bucket, record>>

\* Bucket.Decode on n bytes after the header, in a slice of capacity c
DecodeCall ==
    /\ Encoded
    /\ \E d \in BucketReceivers, n \in PayloadLens :
         \E c \in PayloadCaps(n) :
           Decoded(d, Slice3(record, N(BucketMetaSize), NAdd(N(BucketMetaSize), n),
                             NAdd(N(BucketMetaSize), c)), "Decode")

\* the two-phase load: Bucket.Decode on record[10 : 10 + Size], Size from the
\* header decoded from record[0:10]
DecodeBySize ==
    /\ op = "MetaDecode" /\ returned /\ arg.len = N(BucketMetaSize)
    /\ SliceOk(record, N(BucketMetaSize), NAdd(N(BucketMetaSize), recv.Size))
    /\ \E d \in BucketReceivers :
         Decoded(d, Slice(record, N(BucketMetaSize), NAdd(N(BucketMetaSize), recv.Size)),
                 "DecodeBySize")

Next ==
    \/ SetOp
    \/ SetId
    \/ SetDs
    \/ SetName
    \/ EncodeCall
    \/ GetCRCCall
    \/ TamperCall
    \/ MetaDecodeCall
    \/ DecodeCall
    \/ DecodeBySize

Spec == Init /\ [][Next]_vars

(***************************************************************************)
(* The properties checked.                                                 *)
(***************************************************************************)
\* the value x of a uint16 / uint32 stands little-endian at offset off of s
LE16At(s, off, x) ==
    /\ BAt(s, N(off)) = x % 256
    /\ BAt(s, N(off + 1)) = x \div 256

LE32At(s, off, x) == LE16At(s, off, x[1]) /\ LE16At(s, off + 2, x[2])

\* C2: GetCRC over the split record[0:10], record[10:] returns the checksum
\* Encode wrote little-endian at record[0:4], which is Meta.Crc after Encode
\* and the one-buffer checksum of record[4:]
C2_GetCRCIsEmbeddedChecksum ==
    op = "GetCRC" =>
        /\ returned
        /\ LE32At(Content(record), 0, sum)
        /\ sum = bucket.Meta.Crc
        /\ sum = ChecksumIEEE(BDrop(Content(record), N(4)))

C2_Witness == op = "GetCRC" /\ returned /\ sum = bucket.Meta.Crc /\ BLen(bucket.Name) = N(2)

\* C3: with any one bit of record[4:] inverted, the checksum GetCRC computes
\* over the tampered header and payload differs from the Crc stored in
\* record[0:4] and in Meta.Crc
C3_TamperDetected ==
    op = "Tamper" =>
        /\ returned
        /\ sum # bucket.Meta.Crc
        /\ sum # Uint32(Content(Slice(arg, Zero, N(4))))

C3_Witness ==
    /\ op = "Tamper" /\ returned
    /\ NLeq(N(BucketMetaSize + IdSize + DsSize), flip[1])
    /\ Content(arg) # Content(record)

\* C4: after Encode, Meta.Crc and Meta.Size are the values written: the
\* header holds Crc at [0:4), Op at [4:6) and Size at [6:10), little-endian,
\* and BucketMeta.Decode of record[0:10] gives a BucketMeta equal to Meta
C4_EncodeSetsMeta ==
    /\ op = "Encode" =>
         /\ LE32At(Content(record), 0, bucket.Meta.Crc)
         /\ LE16At(Content(record), 4, bucket.Meta.Op)
         /\ LE32At(Content(record), 6, bucket.Meta.Size)
    /\ (op = "MetaDecode" /\ arg.len = N(10)) => (returned /\ recv = bucket.Meta)

C4_Witness ==
    /\ op = "MetaDecode" /\ returned /\ arg.len = N(10)
    /\ pre = BucketMeta(Zero, 0, Zero)
    /\ recv.Crc # Zero /\ recv.Op = BucketDeleteOperation

\* C5: GetPayloadSize is 10 + len(Name), GetEntrySize is 10 + GetPayloadSize,
\* and the buffer Encode returns is GetEntrySize bytes long
C5_SizeConsistency ==
    /\ GetPayloadSize(bucket) = NAdd(N(10), BLen(bucket.Name))
    /\ GetEntrySize(bucket) = NAdd(N(10), GetPayloadSize(bucket))
    /\ op = "Encode" => record.len = GetEntrySize(bucket)

C5_Witness == op = "Encode" /\ BLen(bucket.Name) = N(2) /\ record.len = N(22)

\* C6: BucketMeta.Decode on fewer than 10 bytes panics and leaves Crc, Op and
\* Size of the receiver as they were; on 10 bytes or more it returns, and the
\* result is the one the first 10 bytes alone give
C6_MetaDecodeLength ==
    op = "MetaDecode" =>
        IF NLt(arg.len, N(10))
        THEN ~returned /\ recv = pre
        ELSE /\ returned
             /\ recv = MetaDecode(pre, SliceOf(BTake(Content(arg), N(10)))).meta
             /\ LE32At(Content(arg), 0, recv.Crc)
             /\ LE16At(Content(arg), 4, recv.Op)
             /\ LE32At(Content(arg), 6, recv.Size)

C6_Witness ==
    /\ op = "MetaDecode" /\ ~returned
    /\ arg.len = N(9) /\ NLeq(N(10), Cap(arg))
    /\ pre = BucketMeta(<<1, 2>>, 7, <<3, 4>>)

\* C7: Bucket.Decode on a payload of fewer than 10 bytes, whatever its
\* capacity, panics and leaves Id, Ds and Name of the receiver as they were;
\* on 10 bytes or more it returns nil with Name the bytes from offset 10 on
C7_BucketDecodeLength ==
    op \in {"Decode", "DecodeBySize"} =>
        IF NLt(arg.len, N(10))
        THEN /\ ~returned
             /\ recv.Id = pre.Id /\ recv.Ds = pre.Ds /\ recv.Name = pre.Name
        ELSE /\ returned
             /\ recv.Name = BDrop(Content(arg), N(10))

C7_Witness ==
    /\ op = "Decode" /\ ~returned
    /\ arg.len = N(8) /\ NLeq(N(10), Cap(arg))
    /\ pre.Id = <<9, 9, 9, 9>>

\* C8: Encode changes only Meta.Size and Meta.Crc of its receiver (Meta.Op,
\* Id, Ds and Name stay); Bucket.Decode leaves Meta of its receiver as it was,
\* a nil Meta included
C8_Frame ==
    [][ /\ op' = "Encode" =>
            /\ bucket'.Meta.Op = bucket.Meta.Op
            /\ bucket'.Id = bucket.Id
            /\ bucket'.Ds = bucket.Ds
            /\ bucket'.Name = bucket.Name
        /\ op' \in {"Decode", "DecodeBySize"} => recv'.Meta = pre'.Meta ]_vars

C8_Witness ==
    /\ op = "Decode" /\ returned
    /\ pre.Meta = NilMeta
    /\ recv.Id # pre.Id /\ recv.Name # pre.Name

\* C9: the bytes Encode returns are those of the current Op, Id, Ds and Name:
\* the same whatever Meta.Crc and Meta.Size held before the call, and the
\* same again when Encode is called once more
C9_EncodeIgnoresStaleMeta ==
    op = "Encode" =>
        \A m \in StaleMetas(bucket.Meta.Op) \cup {bucket.Meta} :
            Encode([bucket EXCEPT !.Meta = m]).buf = record

C9_Witness ==
    /\ op = "Encode"
    /\ bucket.Meta \notin StaleMetas(bucket.Meta.Op)
    /\ BLen(bucket.Name) = N(1)

\* C10: after Encode the Size written at record[6:10) and kept in Meta.Size is
\* the payload length len(record) - 10 = 10 + len(Name), for every Name
C10_SizeIsPayloadLength ==
    op = "Encode" =>
        /\ bucket.Meta.Size = NSub(record.len, N(10))
        /\ bucket.Meta.Size = NAdd(N(10), BLen(bucket.Name))
        /\ LE32At(Content(record), 6, NSub(record.len, N(10)))

\* C1: the two-phase load gives back what was encoded: the header decoded
\* from record[0:10] has the Op of the bucket, and Bucket.Decode on
\* record[10 : 10 + Size] returns with Id, Ds and Name of the bucket
C1_TwoPhaseRoundTrip ==
    /\ (op = "MetaDecode" /\ arg.len = N(10)) =>
           (returned /\ recv.Op = bucket.Meta.Op)
    /\ op = "DecodeBySize" =>
           /\ returned
           /\ recv.Id = bucket.Id
           /\ recv.Ds = bucket.Ds
           /\ recv.Name = bucket.Name
====
